---- MODULE Spec2Model ----
(***************************************************************************)
(* Model of the research-cli native launcher (src-tauri/src/main.rs):      *)
(* find_node_module resolves the Node.js entry point through five ordered  *)
(* tiers, main pre-checks the interpreter, builds the delegate command     *)
(* (forwarded arguments, inferred RESEARCH_CLI_HOME), runs it and exits    *)
(* with its status.                                                        *)
(*                                                                         *)
(* A path is the sequence of its components as std::path::Path sees them:  *)
(* an absolute path starts with the root component "/", the empty sequence *)
(* is the empty path "", and ".." is kept as a component (Path never       *)
(* resolves it; the operating system does when the path is looked up).     *)
(***************************************************************************)
EXTENDS Integers, Sequences, FiniteSets, TLC

\* ------------------------------------------------------------- bounds

\* Files and marker entries placed in the filesystem for a resolution check.
MaxFiles == 2
\* Files and marker entries placed in the filesystem for a whole run.
MaxRunFiles == 1
\* Arguments after the program name.
MaxArgs == 2
\* Files and marker entries placed in the filesystem for an inference check.
MaxInferFiles == 2

\* ------------------------------------------------------------ options

None == [some |-> FALSE, path |-> <<>>]

Some(p) == [some |-> TRUE, path |-> p]

\* ------------------------------------------------------------- paths

Root == "/"

DotDot == ".."

\* A file name whose bytes are not valid Unicode (possible on Unix).
BadName == "<0xFF>"

IsAbs(p) == Len(p) > 0 /\ p[1] = Root

\* A join that drops the left-hand side and keeps the suffix alone.
JoinSuffixOnly(p, rel) == rel

\* Path::join: an absolute right-hand side replaces the left one, a relative
\* one is appended component by component.
Join(p, rel) == IF IsAbs(rel) THEN rel ELSE p \o rel

\* format!("{}/<suffix>", root) read back by Path::new: the text is the root's
\* text, a separator and the suffix, so an empty root yields an absolute path.
FormatPath(root, suffix) == IF root = <<>> THEN <<Root>> \o suffix ELSE root \o suffix

\* Path::parent: the path without its last component; nothing for the root
\* and for the empty path.
Parent(p) ==
  IF p = <<>> \/ p = <<Root>> THEN None ELSE Some(SubSeq(p, 1, Len(p) - 1))

\* Path::file_name: the last component when it is a normal one; nothing for
\* "..", the root and the empty path.
FileName(p) ==
  IF p = <<>> \/ p = <<Root>> \/ p[Len(p)] = DotDot
  THEN [some |-> FALSE, name |-> ""]
  ELSE [some |-> TRUE, name |-> p[Len(p)]]

\* OsStr::to_str / env::var's Unicode check: no component is non-Unicode.
IsUnicode(p) == \A i \in 1..Len(p) : p[i] # BadName

\* Names that are regular files in the modelled filesystem; every other
\* entry is a directory.
FileNames == {"index.js", "package.json", "research-cli.exe"}

IsDirIn(fs, p) == p \in fs /\ (p = <<Root>> \/ p[Len(p)] \notin FileNames)

\* The operating system's lookup of the components of p from i onward,
\* standing at directory `at`: ".." steps to the parent (the root is its own
\* parent), a name steps into the entry; every directory stepped through
\* must exist and be a directory.
RECURSIVE Walk(_, _, _, _)
Walk(fs, at, p, i) ==
  IF i > Len(p) THEN Some(at)
  ELSE IF ~IsDirIn(fs, at) THEN None
  ELSE IF p[i] = DotDot
       THEN Walk(fs, IF at = <<Root>> THEN at ELSE SubSeq(at, 1, Len(at) - 1), p, i + 1)
  ELSE Walk(fs, Append(at, p[i]), p, i + 1)

\* Path::exists: fs::metadata succeeds. The empty path never exists; a
\* relative path is looked up from the working directory.
Exists(fs, cwd, p) ==
  IF p = <<>> THEN FALSE
  ELSE LET r == IF IsAbs(p) THEN Walk(fs, <<Root>>, p, 2) ELSE Walk(fs, cwd, p, 1)
       IN r.some /\ r.path \in fs

\* ------------------------------------------------------- environment

VarNames == {"RESEARCH_CLI_HOME", "HOME", "APPDATA"}

\* env::var: the value when the variable is present and valid Unicode; an
\* error when it is absent and also when it is present but not Unicode.
EnvVar(e, name) ==
  IF e[name].some /\ IsUnicode(e[name].path) THEN e[name] ELSE None

\* --------------------------------------------------- find_node_module

\* paths_to_try of the RESEARCH_CLI_HOME tier.
paths_to_try ==
  << <<"packages", "cli", "dist", "index.js">>,
     <<"dist", "index.js">>,
     <<"cli", "dist", "index.js">>,
     <<"index.js">> >>

\* lib_paths, joined to the executable's directory.
lib_paths ==
  << <<DotDot, "lib", "research-cli", "packages", "cli", "dist", "index.js">>,
     <<DotDot, "lib", "research-cli", "dist", "index.js">>,
     <<DotDot, "lib", "research-cli", "cli", "dist", "index.js">>,
     <<DotDot, "lib", "research-cli", "index.js">>,
     <<"lib", "research-cli", "packages", "cli", "dist", "index.js">>,
     <<"lib", "research-cli", "dist", "index.js">> >>

\* dev_paths, joined to the parent of the executable's directory.
dev_paths ==
  << <<"packages", "cli", "dist", "index.js">>,
     <<"packages", "cli", "index.js">> >>

system_paths ==
  << <<Root, "usr", "local", "lib", "research-cli", "packages", "cli", "dist", "index.js">>,
     <<Root, "usr", "local", "lib", "research-cli", "dist", "index.js">>,
     <<Root, "opt", "research-cli", "packages", "cli", "dist", "index.js">>,
     <<Root, "opt", "research-cli", "dist", "index.js">>,
     <<Root, "usr", "lib", "research-cli", "packages", "cli", "dist", "index.js">>,
     <<Root, "usr", "lib", "research-cli", "dist", "index.js">> >>

\* The suffixes of user_paths, formatted after HOME.
user_paths ==
  << <<".local", "lib", "research-cli", "packages", "cli", "dist", "index.js">>,
     <<".local", "lib", "research-cli", "dist", "index.js">>,
     <<".research-cli", "packages", "cli", "dist", "index.js">>,
     <<".research-cli", "dist", "index.js">> >>

\* The suffixes of win_paths, formatted after APPDATA.
win_paths ==
  << <<"research-cli", "packages", "cli", "dist", "index.js">>,
     <<"research-cli", "dist", "index.js">> >>

\* [f(s[1]), ..., f(s[n])] for the join / format of a root with each suffix.
JoinAll(root, suffixes) == [i \in 1..Len(suffixes) |-> Join(root, suffixes[i])]

FormatAll(root, suffixes) == [i \in 1..Len(suffixes) |-> FormatPath(root, suffixes[i])]

\* The candidate paths each tier builds, in the order it probes them; a tier
\* whose variable cannot be read (or whose directory cannot be derived)
\* builds none.
OverrideCandidates(e) ==
  LET research_home == EnvVar(e, "RESEARCH_CLI_HOME")
  IN IF research_home.some THEN JoinAll(research_home.path, paths_to_try) ELSE <<>>

ExeCandidates(exe_path) ==
  IF ~exe_path.some THEN <<>>
  ELSE LET exe_dir == Parent(exe_path.path)
       IN IF ~exe_dir.some THEN <<>>
          ELSE LET parent == Parent(exe_dir.path)
               IN JoinAll(exe_dir.path, lib_paths)
                  \o (IF parent.some THEN JoinAll(parent.path, dev_paths) ELSE <<>>)

SystemCandidates == system_paths

UserCandidates(e) ==
  LET home == EnvVar(e, "HOME")
  IN IF home.some THEN FormatAll(home.path, user_paths) ELSE <<>>

WindowsCandidates(e, win) ==
  LET appdata == EnvVar(e, "APPDATA")
  IN IF win /\ appdata.some THEN FormatAll(appdata.path, win_paths) ELSE <<>>

\* One `for path in ... { if module_path.exists() { return Some(module_path) } }`
\* loop from candidate i onward: the first candidate that exists.
RECURSIVE ProbeFrom(_, _, _, _)
ProbeFrom(fs, cwd, cands, i) ==
  IF i > Len(cands) THEN None
  ELSE IF Exists(fs, cwd, cands[i]) THEN Some(cands[i])
  ELSE ProbeFrom(fs, cwd, cands, i + 1)

\* A probe that keeps looking after a hit and so returns the last existing
\* candidate: the loop without its early return.
ProbeLast(fs, cwd, cands) ==
  LET hits == {i \in 1..Len(cands) : Exists(fs, cwd, cands[i])}
  IN IF hits = {} THEN None
     ELSE Some(cands[CHOOSE i \in hits : \A j \in hits : j <= i])

Probe(fs, cwd, cands) == ProbeFrom(fs, cwd, cands, 1)

NotFound == [some |-> FALSE, path |-> <<>>, tier |-> 0]

Found(r, t) == [some |-> TRUE, path |-> r.path, tier |-> t]

\* find_node_module with the system tier consulted before the
\* executable-relative one: the tiers out of their order.
find_node_module_system_first(e, exe_path, win, fs, cwd) ==
  LET t1 == Probe(fs, cwd, OverrideCandidates(e))
      t2 == Probe(fs, cwd, ExeCandidates(exe_path))
      t3 == Probe(fs, cwd, SystemCandidates)
      t4 == Probe(fs, cwd, UserCandidates(e))
      t5 == Probe(fs, cwd, WindowsCandidates(e, win))
  IN IF t1.some THEN Found(t1, 1)
     ELSE IF t3.some THEN Found(t3, 3)
     ELSE IF t2.some THEN Found(t2, 2)
     ELSE IF t4.some THEN Found(t4, 4)
     ELSE IF t5.some THEN Found(t5, 5)
     ELSE NotFound

\* find_node_module taking an override that matches nothing, an unknown
\* executable path or an unset HOME for an error: it gives up there instead
\* of going on to the next tier.
find_node_module_strict(e, exe_path, win, fs, cwd) ==
  LET t1 == Probe(fs, cwd, OverrideCandidates(e))
      t2 == Probe(fs, cwd, ExeCandidates(exe_path))
      t3 == Probe(fs, cwd, SystemCandidates)
      t4 == Probe(fs, cwd, UserCandidates(e))
      t5 == Probe(fs, cwd, WindowsCandidates(e, win))
  IN IF t1.some THEN Found(t1, 1)
     ELSE IF EnvVar(e, "RESEARCH_CLI_HOME").some \/ ~exe_path.some THEN NotFound
     ELSE IF t2.some THEN Found(t2, 2)
     ELSE IF t3.some THEN Found(t3, 3)
     ELSE IF ~EnvVar(e, "HOME").some THEN NotFound
     ELSE IF t4.some THEN Found(t4, 4)
     ELSE IF t5.some THEN Found(t5, 5)
     ELSE NotFound

\* find_node_module: the tiers in program order, each returning at its first
\* existing candidate. `tier` records which tier returned (0: none).
find_node_module(e, exe_path, win, fs, cwd) ==
  LET t1 == Probe(fs, cwd, OverrideCandidates(e))
      t2 == Probe(fs, cwd, ExeCandidates(exe_path))
      t3 == Probe(fs, cwd, SystemCandidates)
      t4 == Probe(fs, cwd, UserCandidates(e))
      t5 == Probe(fs, cwd, WindowsCandidates(e, win))
  IN IF t1.some THEN Found(t1, 1)
     ELSE IF t2.some THEN Found(t2, 2)
     ELSE IF t3.some THEN Found(t3, 3)
     ELSE IF t4.some THEN Found(t4, 4)
     ELSE IF t5.some THEN Found(t5, 5)
     ELSE NotFound

\* --------------------------------------- what find_node_module consults

\* What find_node_module asks of its surroundings, one event each: the read
\* of an environment variable (env::var), the query for the executable's
\* path (env::current_exe) and the probe of a candidate (Path::exists).
ReadVar(name) == [op |-> "var", name |-> name, path |-> <<>>]

CurrentExe == [op |-> "current_exe", name |-> "", path |-> <<>>]

ProbeOf(p) == [op |-> "exists", name |-> "", path |-> p]

\* The probes one candidate loop makes from candidate i onward: each
\* candidate in turn, the one that exists being the last (the loop returns).
RECURSIVE ProbedFrom(_, _, _, _)
ProbedFrom(fs, cwd, cands, i) ==
  IF i > Len(cands) THEN <<>>
  ELSE <<ProbeOf(cands[i])>>
       \o (IF Exists(fs, cwd, cands[i]) THEN <<>> ELSE ProbedFrom(fs, cwd, cands, i + 1))

\* The probes of a loop that tests every candidate, whether one was found
\* already or not.
ProbedAll(fs, cwd, cands) == [i \in 1..Len(cands) |-> ProbeOf(cands[i])]

Probed(fs, cwd, cands) == ProbedFrom(fs, cwd, cands, 1)

\* The events of one call of find_node_module, in program order: each tier
\* reads what it is built from and probes its candidates, and the call ends
\* with the tier whose probe succeeds. APPDATA is read on Windows only.
find_node_module_trace(e, exe_path, win, fs, cwd) ==
  LET s1 == <<ReadVar("RESEARCH_CLI_HOME")>> \o Probed(fs, cwd, OverrideCandidates(e))
      s2 == <<CurrentExe>> \o Probed(fs, cwd, ExeCandidates(exe_path))
      s3 == Probed(fs, cwd, SystemCandidates)
      s4 == <<ReadVar("HOME")>> \o Probed(fs, cwd, UserCandidates(e))
      s5 == IF win THEN <<ReadVar("APPDATA")>> \o Probed(fs, cwd, WindowsCandidates(e, win))
            ELSE <<>>
      \* A tier returned: its last event is a probe, and of a path that exists.
      Hit(s) == s[Len(s)].op = "exists" /\ Exists(fs, cwd, s[Len(s)].path)
  IN IF Hit(s1) THEN s1
     ELSE IF Hit(s2) THEN s1 \o s2
     ELSE IF s3 # <<>> /\ Hit(s3) THEN s1 \o s2 \o s3
     ELSE IF Hit(s4) THEN s1 \o s2 \o s3 \o s4
     ELSE s1 \o s2 \o s3 \o s4 \o s5

\* ----------------------------------------------- environment inference

\* The loop carried on to the top: the outermost directory with a marker
\* instead of the nearest one.
RECURSIVE InferFromTop(_, _, _)
InferFromTop(fs, cwd, current) ==
  LET p == Parent(current)
      above == IF p.some THEN InferFromTop(fs, cwd, p.path) ELSE None
  IN IF above.some THEN above
     ELSE IF \/ Exists(fs, cwd, Join(current, <<"package.json">>))
             \/ Exists(fs, cwd, Join(current, <<"packages">>))
             \/ FileName(current) = [some |-> TRUE, name |-> "research-cli"]
          THEN Some(current)
          ELSE None

\* The loop of main that looks for the package root: from `current` upward
\* through Path::parent, the first directory that holds package.json, holds
\* packages, or is named research-cli; nothing when parent() runs out.
RECURSIVE InferFrom(_, _, _)
InferFrom(fs, cwd, current) ==
  IF \/ Exists(fs, cwd, Join(current, <<"package.json">>))
     \/ Exists(fs, cwd, Join(current, <<"packages">>))
     \/ FileName(current) = [some |-> TRUE, name |-> "research-cli"]
  THEN Some(current)
  ELSE LET p == Parent(current)
       IN IF p.some THEN InferFrom(fs, cwd, p.path) ELSE None

\* The module's own directory taken for the root, with no marker tested.
InferredHomeNoWalk(e, fs, cwd, module) ==
  IF EnvVar(e, "RESEARCH_CLI_HOME").some THEN None ELSE Parent(module)

\* The value given to cmd.env("RESEARCH_CLI_HOME", ..), if any: nothing when
\* env::var reads the variable, else the root found above the module.
InferredHome(e, fs, cwd, module) ==
  IF EnvVar(e, "RESEARCH_CLI_HOME").some THEN None
  ELSE LET parent == Parent(module)
       IN IF parent.some THEN InferFrom(fs, cwd, parent.path) ELSE None

\* The environment a child of Command inherits: the launcher's, with the
\* variables set through cmd.env replacing or adding to it.
ChildEnv(e, env_home) ==
  [n \in VarNames |-> IF n = "RESEARCH_CLI_HOME" /\ env_home.some THEN env_home ELSE e[n]]

\* ------------------------------------------------------ exit status

\* ExitStatus::code: the code of a child that exited, nothing for a child
\* that a signal terminated.
Code(status) ==
  IF status.signaled THEN [some |-> FALSE, code |-> 0]
  ELSE [some |-> TRUE, code |-> status.code]

\* An exit code that keeps only success or failure of the delegate.
ExitCodeForFlattened(status) ==
  IF Code(status).some /\ Code(status).code # 0 THEN 1 ELSE 0

\* exit_status.code().unwrap_or(0)
ExitCodeFor(status) == IF Code(status).some THEN Code(status).code ELSE 0

\* The pre-check run with inherited streams, as Command::status would.
PreCheckStdoutInherited == "inherit"

\* How the version pre-check's standard output is connected: Command::output
\* pipes it to the launcher, which drops it.
PreCheckStdout == "piped"

\* ------------------------------------------------------------ inputs

Unset == None

ResearchHomeValues ==
  { Unset,
    Some(<<Root, "opt", "research-cli">>),
    Some(<<>>),
    Some(<<Root, BadName>>) }

ExeValues ==
  { None,
    Some(<<Root, "usr", "local", "bin", "research-cli.exe">>),
    Some(<<Root, "research-cli.exe">>) }

HomeValues == { Unset, Some(<<Root, "home", "u">>) }

AppDataValues == { Unset, Some(<<Root, "appdata">>) }

WorkDir == <<Root, "work">>

\* Entries a filesystem may hold besides the directories that always exist.
Seeds ==
  { <<Root, "opt", "research-cli", "packages", "cli", "dist", "index.js">>,
    <<Root, "opt", "research-cli", "dist", "index.js">>,
    <<Root, "opt", "research-cli", "cli", "dist", "index.js">>,
    <<Root, "opt", "research-cli", "index.js">>,
    <<Root, "work", "dist", "index.js">>,
    <<Root, "work", "index.js">>,
    <<Root, BadName, "index.js">>,
    <<Root, "usr", "local", "lib", "research-cli", "dist", "index.js">>,
    <<Root, "usr", "local", "bin", "lib", "research-cli", "dist", "index.js">>,
    <<Root, "usr", "local", "packages", "cli", "dist", "index.js">>,
    <<Root, "usr", "local", "packages", "cli", "index.js">>,
    <<Root, "lib", "research-cli", "index.js">>,
    <<Root, "usr", "lib", "research-cli", "packages", "cli", "dist", "index.js">>,
    <<Root, "usr", "lib", "research-cli", "dist", "index.js">>,
    <<Root, "home", "u", ".local", "lib", "research-cli", "dist", "index.js">>,
    <<Root, "home", "u", ".research-cli", "packages", "cli", "dist", "index.js">>,
    <<Root, "home", "u", ".research-cli", "dist", "index.js">>,
    <<Root, "appdata", "research-cli", "packages", "cli", "dist", "index.js">>,
    <<Root, "appdata", "research-cli", "dist", "index.js">>,
    <<Root, "home", "u", ".research-cli", "package.json">>,
    <<Root, "usr", "local", "packages", "cli", "package.json">> }

\* The seeds a whole run draws from: one module or more for every tier (the
\* second one is reached through "..", the third through a relative path) and
\* the two package.json markers.
RunSeeds ==
  { <<Root, "opt", "research-cli", "dist", "index.js">>,
    <<Root, "usr", "local", "lib", "research-cli", "dist", "index.js">>,
    <<Root, "work", "index.js">>,
    <<Root, "usr", "local", "bin", "lib", "research-cli", "dist", "index.js">>,
    <<Root, "usr", "local", "packages", "cli", "index.js">>,
    <<Root, "usr", "lib", "research-cli", "dist", "index.js">>,
    <<Root, "home", "u", ".research-cli", "dist", "index.js">>,
    <<Root, "appdata", "research-cli", "dist", "index.js">>,
    <<Root, "home", "u", ".research-cli", "package.json">>,
    <<Root, "usr", "local", "packages", "cli", "package.json">> }

\* A HOME that is a relative path: the user tier's candidates are then
\* relative too and are looked up from the working directory.
RelativeHome == Some(<<"h">>)

\* The variables of an inference check: RESEARCH_CLI_HOME unset, set, or set
\* to a value env::var cannot read; HOME unset, absolute or relative.
InferResearchHomeValues ==
  { Unset, Some(<<Root, "opt", "research-cli">>), Some(<<Root, BadName>>) }

InferHomeValues == { Unset, Some(<<Root, "home", "u">>), RelativeHome }

InferExeValues == { None, Some(<<Root, "usr", "local", "bin", "research-cli.exe">>) }

\* The seeds of an inference check: modules of the executable-relative, the
\* system and the user tier (under an absolute and under a relative HOME)
\* and package.json markers at several heights above them.
InferSeeds ==
  { <<Root, "usr", "lib", "research-cli", "dist", "index.js">>,
    <<Root, "usr", "lib", "research-cli", "dist", "package.json">>,
    <<Root, "usr", "local", "lib", "research-cli", "dist", "index.js">>,
    <<Root, "usr", "local", "packages", "cli", "index.js">>,
    <<Root, "usr", "local", "packages", "cli", "package.json">>,
    <<Root, "home", "u", ".research-cli", "dist", "index.js">>,
    <<Root, "home", "u", ".research-cli", "package.json">>,
    <<Root, "work", "h", ".research-cli", "dist", "index.js">>,
    <<Root, "work", "package.json">>,
    <<Root, "package.json">> }

\* The sets of at most n of the given seeds.
RECURSIVE SeedSets(_, _)
SeedSets(seeds, n) ==
  IF n = 0 THEN {{}}
  ELSE LET prev == SeedSets(seeds, n - 1)
       IN prev \cup {s \cup {x} : s \in prev, x \in seeds}

\* A path and every directory above it.
Ancestors(p) == {SubSeq(p, 1, k) : k \in 1..Len(p)}

\* The filesystem holding the seeds S: the root, the working directory, the
\* running executable (when its path is known) and the seeds, each with the
\* directories above it.
FileSystem(S, exe_path) ==
  UNION {Ancestors(p) : p \in S \cup {WorkDir} \cup (IF exe_path.some THEN {exe_path.path} ELSE {})}

\* Argument values: one that looks like a flag, one with a space and quotes,
\* and one that is not valid Unicode.
ArgValues == {"--version", "a \"b\"", BadName}

ProgramName == "research-cli"

\* The arguments collected without skipping the program name.
CollectArgsNoSkip(os_args) == os_args

\* env::args().skip(1).collect(): the arguments after the program name.
CollectArgs(os_args) == Tail(os_args)

RECURSIVE ArgLists(_)
ArgLists(n) ==
  IF n = 0 THEN {<<>>}
  ELSE LET prev == ArgLists(n - 1)
       IN prev \cup {Append(a, x) : a \in prev, x \in ArgValues}

\* What the delegate may end with: an exit code, or a signal.
ExitStatuses ==
  {[signaled |-> FALSE, code |-> c] : c \in {0, 1, 17}} \cup {[signaled |-> TRUE, code |-> 0]}

\* ------------------------------------------------------------- state

VARIABLES
  env,          \* the launcher's environment: variable -> value, if present
  exe,          \* env::current_exe(): the executable's path, if it is known
  windows,      \* cfg!(windows)
  fs,           \* the filesystem: the set of existing absolute paths
  cwd,          \* the working directory
  pc,           \* where main stands
  module_path,  \* main's module_path (with the tier that returned it)
  trace,        \* what find_node_module consulted, in order
  argv,         \* the launcher's own argument list, as env::args reads it
  args,         \* main's args
  cmd,          \* main's cmd, once built
  child,        \* the delegate process
  procs,        \* the processes the launcher tried to start, in order
  stdout,       \* what reached the launcher's standard output, by writer
  stderr,       \* the launcher's diagnostics on standard error
  captured,     \* output captured by the launcher through a pipe
  exit_code     \* the launcher's exit code, once pc = "exited"

vars ==
  <<env, exe, windows, fs, cwd, pc, module_path, trace, argv, args, cmd, child,
    procs, stdout, stderr, captured, exit_code>>

inputs == <<env, exe, windows, fs, cwd>>

NoCmd == [args |-> <<>>, env_home |-> None]

NoChild == [state |-> "none", args |-> <<>>, env |-> [n \in VarNames |-> None],
            status |-> [signaled |-> FALSE, code |-> 0]]

\* The state when main is entered: the variables, the executable's path and
\* the platform drawn from the given sets, at most n of the seeds in the
\* filesystem.
InitFrom(rhs, homes, appdatas, exes, platforms, seeds, n) ==
  /\ \E rh \in rhs, h \in homes, a \in appdatas :
       env = [v \in VarNames |-> CASE v = "RESEARCH_CLI_HOME" -> rh
                                   [] v = "HOME" -> h
                                   [] OTHER -> a]
  /\ exe \in exes
  /\ windows \in platforms
  /\ \E S \in SeedSets(seeds, n) : fs = FileSystem(S, exe)
  /\ cwd = WorkDir
  /\ pc = "start"
  /\ module_path = NotFound
  /\ trace = <<>>
  /\ argv = <<>>
  /\ args = <<>>
  /\ cmd = NoCmd
  /\ child = NoChild
  /\ procs = <<>>
  /\ stdout = <<>>
  /\ stderr = <<>>
  /\ captured = <<>>
  /\ exit_code = 0

\* The same over every value of the variables, every executable path and
\* both platforms.
InitWith(seeds, n) ==
  InitFrom(ResearchHomeValues, HomeValues, AppDataValues, ExeValues, BOOLEAN, seeds, n)

Init == InitWith(RunSeeds, MaxRunFiles)

\* ----------------------------------------------------------- actions

\* The diagnostics, each named by a line of it.
NotFoundMessage == "Error: Research CLI module not found!"

NodeMissingMessage == "Error: Node.js is not installed or not available in PATH!"

StartFailedMessage == "Failed to start Research CLI"

PanicMessage == "thread 'main' panicked"

\* std::process::exit(code) after writing msg to standard error.
Fail(msg, code) ==
  /\ stderr' = Append(stderr, msg)
  /\ exit_code' = code
  /\ pc' = "exited"

\* main, lines 147-148: find_node_module returned a path.
ResolveFound ==
  /\ pc = "start"
  /\ LET r == find_node_module(env, exe, windows, fs, cwd)
     IN /\ r.some
        /\ module_path' = r
  /\ pc' = "resolved"
  /\ trace' = find_node_module_trace(env, exe, windows, fs, cwd)
  /\ UNCHANGED <<inputs, argv, args, cmd, child, procs, stdout, stderr, captured, exit_code>>

\* Nothing found and the help printed, but main carries on to the pre-check:
\* the None arm without its exit.
ResolveNotFoundNoExit ==
  /\ pc = "start"
  /\ ~find_node_module(env, exe, windows, fs, cwd).some
  /\ stderr' = Append(stderr, NotFoundMessage)
  /\ pc' = "resolved"
  /\ trace' = find_node_module_trace(env, exe, windows, fs, cwd)
  /\ UNCHANGED <<inputs, module_path, argv, args, cmd, child, procs, stdout, captured, exit_code>>

\* main, lines 149-152: nothing found; print_help_message and exit(1).
ResolveNotFound ==
  /\ pc = "start"
  /\ ~find_node_module(env, exe, windows, fs, cwd).some
  /\ Fail(NotFoundMessage, 1)
  /\ trace' = find_node_module_trace(env, exe, windows, fs, cwd)
  /\ UNCHANGED <<inputs, module_path, argv, args, cmd, child, procs, stdout, captured>>

\* main, line 156: `node --version` ran; its output is captured.
PreCheckOk ==
  /\ pc = "resolved"
  /\ procs' = Append(procs, [what |-> "precheck", program |-> "node",
                             args |-> <<"--version">>, started |-> TRUE])
  /\ IF PreCheckStdout = "piped"
     THEN captured' = Append(captured, "node --version") /\ stdout' = stdout
     ELSE stdout' = Append(stdout, "node --version") /\ captured' = captured
  /\ pc' = "checked"
  /\ UNCHANGED <<inputs, trace, module_path, argv, args, cmd, child, stderr, exit_code>>

\* The pre-check failed and the guidance was printed, but main carries on to
\* build and run the command: the branch without its exit.
PreCheckErrNoExit ==
  /\ pc = "resolved"
  /\ procs' = Append(procs, [what |-> "precheck", program |-> "node",
                             args |-> <<"--version">>, started |-> FALSE])
  /\ stderr' = Append(stderr, NodeMissingMessage)
  /\ pc' = "checked"
  /\ UNCHANGED <<inputs, trace, module_path, argv, args, cmd, child, stdout, captured, exit_code>>

\* main, lines 156-164: `node --version` could not be started.
PreCheckErr ==
  /\ pc = "resolved"
  /\ procs' = Append(procs, [what |-> "precheck", program |-> "node",
                             args |-> <<"--version">>, started |-> FALSE])
  /\ Fail(NodeMissingMessage, 1)
  /\ UNCHANGED <<inputs, trace, module_path, argv, args, cmd, child, stdout, captured>>

\* main, lines 167-196: the arguments after the program name are collected
\* and the command is built: node, the module path, the arguments, and
\* RESEARCH_CLI_HOME when it is inferred.
BuildCommand ==
  /\ pc = "checked"
  /\ \E rest \in ArgLists(MaxArgs) :
       /\ IsUnicode(rest)
       /\ argv' = <<ProgramName>> \o rest
       /\ args' = CollectArgs(argv')
       /\ cmd' = [args |-> <<module_path.path>> \o args',
                  env_home |-> InferredHome(env, fs, cwd, module_path.path)]
  /\ pc' = "built"
  /\ UNCHANGED <<inputs, trace, module_path, child, procs, stdout, stderr, captured, exit_code>>

\* main, line 167: env::args() panics on an argument that is not valid
\* Unicode; the panic message goes to standard error and the process ends
\* with the runtime's panic code.
ArgsPanic ==
  /\ pc = "checked"
  /\ \E rest \in ArgLists(MaxArgs) :
       /\ ~IsUnicode(rest)
       /\ argv' = <<ProgramName>> \o rest
  /\ Fail(PanicMessage, 101)
  /\ UNCHANGED <<inputs, trace, module_path, args, cmd, child, procs, stdout, captured>>

\* The delegate started without being waited for, as Command::spawn would:
\* the launcher exits at once.
SpawnOkNoWait ==
  /\ pc = "built"
  /\ procs' = Append(procs, [what |-> "delegate", program |-> "node",
                             args |-> cmd.args, started |-> TRUE])
  /\ child' = [child EXCEPT !.state = "running", !.args = cmd.args,
                            !.env = ChildEnv(env, cmd.env_home)]
  /\ exit_code' = 0
  /\ pc' = "exited"
  /\ UNCHANGED <<inputs, trace, module_path, argv, args, cmd, stdout, stderr, captured>>

\* main, line 199: cmd.status() started the delegate, which inherits the
\* standard streams.
SpawnOk ==
  /\ pc = "built"
  /\ procs' = Append(procs, [what |-> "delegate", program |-> "node",
                             args |-> cmd.args, started |-> TRUE])
  /\ child' = [child EXCEPT !.state = "running", !.args = cmd.args,
                            !.env = ChildEnv(env, cmd.env_home)]
  /\ pc' = "waiting"
  /\ UNCHANGED <<inputs, trace, module_path, argv, args, cmd, stdout, stderr, captured, exit_code>>

\* The delegate could not be started and the launcher ends with another
\* code than the one of its other failures.
SpawnErrOtherCode ==
  /\ pc = "built"
  /\ procs' = Append(procs, [what |-> "delegate", program |-> "node",
                             args |-> cmd.args, started |-> FALSE])
  /\ Fail(StartFailedMessage, 127)
  /\ UNCHANGED <<inputs, trace, module_path, argv, args, cmd, child, stdout, captured>>

\* The delegate could not be started and the launcher, having reported it,
\* goes back to the interpreter pre-check: a retry.
SpawnErrRetry ==
  /\ pc = "built"
  /\ procs' = Append(procs, [what |-> "delegate", program |-> "node",
                             args |-> cmd.args, started |-> FALSE])
  /\ stderr' = Append(stderr, StartFailedMessage)
  /\ pc' = "resolved"
  /\ UNCHANGED <<inputs, trace, module_path, argv, args, cmd, child, stdout, captured, exit_code>>

\* main, lines 199 and 205-214: cmd.status() could not start the delegate.
SpawnErr ==
  /\ pc = "built"
  /\ procs' = Append(procs, [what |-> "delegate", program |-> "node",
                             args |-> cmd.args, started |-> FALSE])
  /\ Fail(StartFailedMessage, 1)
  /\ UNCHANGED <<inputs, trace, module_path, argv, args, cmd, child, stdout, captured>>

\* The delegate ends, by exit or by signal, having written to the inherited
\* standard output or not.
DelegateTerminates ==
  /\ pc = "waiting"
  /\ child.state = "running"
  /\ \E st \in ExitStatuses, wrote \in BOOLEAN :
       /\ child' = [child EXCEPT !.state = "terminated", !.status = st]
       /\ stdout' = IF wrote THEN Append(stdout, "delegate") ELSE stdout
  /\ UNCHANGED <<inputs, trace, pc, module_path, argv, args, cmd, procs, stderr, captured, exit_code>>

\* main, lines 201-204: cmd.status() returned the delegate's status.
ExitWithStatus ==
  /\ pc = "waiting"
  /\ child.state = "terminated"
  /\ exit_code' = ExitCodeFor(child.status)
  /\ pc' = "exited"
  /\ UNCHANGED <<inputs, trace, module_path, argv, args, cmd, child, procs, stdout, stderr, captured>>

Next ==
  \/ ResolveFound
  \/ ResolveNotFound
  \/ PreCheckOk
  \/ PreCheckErr
  \/ BuildCommand
  \/ ArgsPanic
  \/ SpawnOk
  \/ SpawnErr
  \/ DelegateTerminates
  \/ ExitWithStatus

\* A run of the launcher.
Spec == Init /\ [][Next]_vars

\* Resolution alone, over the wider family of filesystems.
InitResolve == InitWith(Seeds, MaxFiles)

NextResolve == ResolveFound \/ ResolveNotFound

SpecResolve == InitResolve /\ [][NextResolve]_vars

\* main up to the built command, over filesystems with markers and over a
\* relative HOME, on a platform other than Windows.
InitInfer ==
  InitFrom(InferResearchHomeValues, InferHomeValues, {Unset}, InferExeValues, {FALSE},
           InferSeeds, MaxInferFiles)

NextInfer ==
  \/ ResolveFound
  \/ ResolveNotFound
  \/ PreCheckOk
  \/ PreCheckErr
  \/ BuildCommand
  \/ ArgsPanic

SpecInfer == InitInfer /\ [][NextInfer]_vars

\* A run of the launcher that is scheduled: once cmd.status() can return,
\* main goes on to its exit. Nothing is assumed of the delegate, which may
\* run forever. The runs are those on a platform other than Windows with
\* RESEARCH_CLI_HOME unset or set to a directory.
InitFair ==
  InitFrom({Unset, Some(<<Root, "opt", "research-cli">>)}, HomeValues, {Unset}, ExeValues,
           {FALSE}, RunSeeds, MaxRunFiles)

SpecFair == InitFair /\ [][Next]_vars /\ WF_vars(ExitWithStatus)

\* ------------------------------------------------------- properties

\* The candidates of tier t in the launcher's state, in declared order
\* (1 override, 2 executable-relative, 3 system, 4 user, 5 platform).
TierCandidates(t) ==
  CASE t = 1 -> OverrideCandidates(env)
    [] t = 2 -> ExeCandidates(exe)
    [] t = 3 -> SystemCandidates
    [] t = 4 -> UserCandidates(env)
    [] OTHER -> WindowsCandidates(env, windows)

Tiers == 1..5

ExistingIn(t) ==
  LET c == TierCandidates(t)
  IN {i \in DOMAIN c : Exists(fs, cwd, c[i])}

\* C1: once resolution has run, the earliest tier (override, executable-
\* relative, system, user, platform) with an existing candidate is the tier
\* that returned, and the returned path is an existing candidate of it; no
\* later tier's candidate is returned while an earlier tier has one.
C1_TierPrecedence ==
  pc # "start" =>
    \A t \in Tiers :
      (ExistingIn(t) # {} /\ \A u \in 1..(t - 1) : ExistingIn(u) = {}) =>
        /\ pc = "resolved"
        /\ module_path.some
        /\ module_path.tier = t
        /\ \E i \in ExistingIn(t) : TierCandidates(t)[i] = module_path.path

\* The executable-relative tier returned although the system tier and the
\* user tier had existing candidates too.
C1_Witness ==
  /\ pc = "resolved"
  /\ module_path.tier = 2
  /\ ExistingIn(3) # {}
  /\ ExistingIn(4) # {}

\* C2: the returned path is the first existing candidate in the declared
\* list of the tier that returned: no candidate before it in that list
\* exists.
C2_FirstInTier ==
  pc = "resolved" =>
    LET c == TierCandidates(module_path.tier)
    IN \E i \in DOMAIN c :
         /\ c[i] = module_path.path
         /\ Exists(fs, cwd, c[i])
         /\ \A j \in 1..(i - 1) : ~Exists(fs, cwd, c[j])

\* The override tier returned packages/cli/dist/index.js while index.js, the
\* last of its list, existed as well.
C2_Witness ==
  /\ pc = "resolved"
  /\ module_path.tier = 1
  /\ ExistingIn(1) = {1, 4}
  /\ module_path.path = TierCandidates(1)[1]

Spawned == child.state # "none"

Terminated == child.state = "terminated"

\* C3: when the delegate was spawned and ended with an exit code c, the
\* launcher exits with exactly c.
C3_ExitCodePropagated ==
  (pc = "exited" /\ Terminated /\ ~child.status.signaled) =>
    exit_code = child.status.code

\* The delegate exited with 17 and the launcher has exited.
C3_Witness ==
  /\ pc = "exited"
  /\ Terminated
  /\ child.status = [signaled |-> FALSE, code |-> 17]

\* C4: when the delegate ends without an exit code (a signal ended it), the
\* launcher exits with a failure code, that is a code other than 0.
C4_SignalGivesFailureCode ==
  (pc = "exited" /\ Terminated /\ child.status.signaled) => exit_code # 0

NoCandidateExists ==
  \A t \in Tiers : LET c == TierCandidates(t) IN \A i \in DOMAIN c : ~Exists(fs, cwd, c[i])

\* C5: when no candidate of any tier exists, no process is ever started
\* (neither the pre-check nor the delegate), main goes from its start
\* straight to its exit, and it exits with code 1 having written the
\* remediation text, and only it, to standard error. (Written as a
\* disjunction, "the conclusion holds or some candidate exists"; the middle
\* disjunct is a case of the last one that a single tier decides.)
C5_NotFoundExitsWithoutSpawn ==
  \/ /\ procs = <<>>
     /\ ~Spawned
     /\ pc \in {"start", "exited"}
     /\ pc = "exited" => (exit_code = 1 /\ stderr = <<NotFoundMessage>> /\ stdout = <<>>)
  \/ (module_path.tier \in Tiers /\ ExistingIn(module_path.tier) # {})
  \/ ~NoCandidateExists

\* The launcher has exited in a filesystem holding none of the candidates.
C5_Witness == pc = "exited" /\ NoCandidateExists

\* C6: a RESEARCH_CLI_HOME present in the caller's environment, whatever its
\* value, reaches the delegate unchanged.
C6_CallerValueKept ==
  (Spawned /\ env["RESEARCH_CLI_HOME"].some) =>
    child.env["RESEARCH_CLI_HOME"] = env["RESEARCH_CLI_HOME"]

PreCheckFailed ==
  \E i \in DOMAIN procs : procs[i].what = "precheck" /\ ~procs[i].started

\* C8: when the interpreter pre-check fails, the launcher has written the
\* interpreter guidance to standard error and exited with code 1, and the
\* delegate was not started nor tried.
C8_PreCheckFailureExits ==
  PreCheckFailed =>
    /\ pc = "exited"
    /\ exit_code = 1
    /\ stderr = <<NodeMissingMessage>>
    /\ ~Spawned
    /\ \A i \in DOMAIN procs : procs[i].what # "delegate"

\* The pre-check failed after a module was resolved.
C8_Witness == PreCheckFailed /\ module_path.some

\* C9: everything on standard output was written by the delegate; a run
\* that ends without a delegate leaves standard output empty and its
\* diagnostic on standard error.
C9_StdoutOnlyDelegate ==
  /\ \A i \in DOMAIN stdout : stdout[i] = "delegate"
  /\ (pc = "exited" /\ ~Spawned) => (stdout = <<>> /\ Len(stderr) = 1)

\* The pre-check's output was captured, the delegate wrote to standard
\* output and the launcher has exited.
C9_Witness ==
  /\ pc = "exited"
  /\ captured = <<"node --version">>
  /\ stdout = <<"delegate">>

\* The root inference finds above the resolved module, whatever the
\* environment holds.
RootAbove(module) ==
  LET parent == Parent(module)
  IN IF parent.some THEN InferFrom(fs, cwd, parent.path) ELSE None

\* C10: the delegate's environment is the caller's, except that
\* RESEARCH_CLI_HOME is added exactly when the caller's environment does not
\* hold it and inference found a root.
C10_ChildEnvIsCallersPlusInferred ==
  Spawned =>
    child.env =
      [n \in VarNames |->
         IF n = "RESEARCH_CLI_HOME" /\ ~env[n].some /\ RootAbove(module_path.path).some
         THEN RootAbove(module_path.path)
         ELSE env[n]]

SpawnFailed ==
  \E i \in DOMAIN procs : procs[i].what = "delegate" /\ ~procs[i].started

LauncherFailures == {NotFoundMessage, NodeMissingMessage, StartFailedMessage}

\* C11: when starting the delegate fails after the pre-check passed, the
\* launcher has written its start-failure diagnostic to standard error and
\* exited with code 1; and every exit that follows one of the launcher's
\* three diagnostics (module not found, interpreter unavailable, start
\* failure) is an exit with code 1.
C11_SpawnFailureExitsOne ==
  /\ SpawnFailed =>
       /\ pc = "exited"
       /\ exit_code = 1
       /\ stderr = <<StartFailedMessage>>
       /\ stdout = <<>>
       /\ procs[1].what = "precheck" /\ procs[1].started
       /\ ~Spawned
  /\ (pc = "exited" /\ \E i \in DOMAIN stderr : stderr[i] \in LauncherFailures) =>
       exit_code = 1

\* The pre-check ran and the delegate then failed to start.
C11_Witness ==
  /\ SpawnFailed
  /\ Len(procs) = 2
  /\ procs[1].started

\* The candidates of all tiers, in the launcher's search order.
SearchOrder ==
  TierCandidates(1) \o TierCandidates(2) \o TierCandidates(3) \o TierCandidates(4)
    \o TierCandidates(5)

\* The paths resolution probed, in the order it probed them.
ProbedPaths ==
  LET probes == SelectSeq(trace, LAMBDA ev : ev.op = "exists")
  IN [i \in DOMAIN probes |-> probes[i].path]

\* C12: when resolution returned a path, the probe of that path is the last
\* thing resolution did; the probes it made are the candidates of the search
\* order up to that one, none of which before it exists, so no candidate
\* after the hit (in its tier or a later one) was probed; and HOME was not
\* read unless the user or the platform tier was reached, nor APPDATA unless
\* the platform tier was.
C12_ShortCircuit ==
  pc = "resolved" =>
    /\ trace # <<>>
    /\ trace[Len(trace)] = ProbeOf(module_path.path)
    /\ Len(ProbedPaths) <= Len(SearchOrder)
    /\ ProbedPaths = SubSeq(SearchOrder, 1, Len(ProbedPaths))
    /\ \A i \in 1..(Len(ProbedPaths) - 1) : ~Exists(fs, cwd, ProbedPaths[i])
    /\ module_path.tier <= 3 => \A i \in DOMAIN trace : trace[i] # ReadVar("HOME")
    /\ module_path.tier <= 4 => \A i \in DOMAIN trace : trace[i] # ReadVar("APPDATA")

\* The system tier returned its first existing candidate while a later one
\* of its list and a candidate of the user tier existed too, HOME being set.
C12_Witness ==
  /\ pc = "resolved"
  /\ module_path.tier = 3
  /\ Cardinality(ExistingIn(3)) > 1
  /\ env["HOME"].some

\* The three markers of the inference loop, tested on directory d as main
\* tests them: an entry package.json in it, an entry packages in it, or the
\* name research-cli.
HasMarker(d) ==
  \/ Exists(fs, cwd, Join(d, <<"package.json">>))
  \/ Exists(fs, cwd, Join(d, <<"packages">>))
  \/ FileName(d) = [some |-> TRUE, name |-> "research-cli"]

\* The directory a path denotes for the operating system, as an absolute
\* path without "..": the empty path and every relative path are taken from
\* the working directory.
Real(p) == IF IsAbs(p) THEN Walk(fs, <<Root>>, p, 2) ELSE Walk(fs, cwd, p, 1)

\* The lengths of the prefixes of the module path that Path::parent yields
\* from the module upward: down to the root for an absolute path, down to
\* the empty path for a relative one.
WalkedLengths ==
  (IF IsAbs(module_path.path) THEN 1 ELSE 0)..(Len(module_path.path) - 1)

WalkedPrefix(k) == SubSeq(module_path.path, 1, k)

MarkedLengths == {k \in WalkedLengths : HasMarker(WalkedPrefix(k))}

\* The directories of the filesystem from the one holding the module up to
\* and including the root.
DirsAbove ==
  LET dir == Real(WalkedPrefix(Len(module_path.path) - 1))
  IN IF dir.some THEN Ancestors(dir.path) ELSE {}

MarkedDirs == {d \in DirsAbove : HasMarker(d)}

InferenceRan == pc = "built" /\ ~env["RESEARCH_CLI_HOME"].some

\* C13 (as stated): with RESEARCH_CLI_HOME unset, the inferred root is the
\* nearest directory, among those from the module's directory up to and
\* including the filesystem root, that has a marker, and nothing is inferred
\* only when none of them has one.
C13_NearestUpToRoot ==
  InferenceRan =>
    IF MarkedDirs = {} THEN ~cmd.env_home.some
    ELSE /\ cmd.env_home.some
         /\ Real(cmd.env_home.path).some
         /\ Real(cmd.env_home.path).path \in MarkedDirs
         /\ \A d \in MarkedDirs : Len(d) <= Len(Real(cmd.env_home.path).path)

\* C13 (amended): with RESEARCH_CLI_HOME unset, the inferred root is the
\* longest prefix of the module path as written, below the module itself,
\* that has a marker; the prefixes end at the root for an absolute module
\* path and at the empty path for a relative one, so that nothing above the
\* working directory is examined then; nothing is inferred when no prefix has
\* a marker. (The walk ends: each step drops one component.)
C13_NearestWrittenPrefix ==
  InferenceRan =>
    IF MarkedLengths = {} THEN ~cmd.env_home.some
    ELSE /\ cmd.env_home.some
         /\ \E k \in MarkedLengths :
              /\ cmd.env_home.path = WalkedPrefix(k)
              /\ \A j \in MarkedLengths : j <= k

\* Two directories above the module have a marker and the command is built.
C13_Witness ==
  /\ InferenceRan
  /\ Cardinality(MarkedLengths) > 1

\* The stages of main in program order.
Rank(at) ==
  CASE at = "start" -> 0
    [] at = "resolved" -> 1
    [] at = "checked" -> 2
    [] at = "built" -> 3
    [] at = "waiting" -> 4
    [] OTHER -> 5

Started(what) == {i \in DOMAIN procs : procs[i].what = what}

\* What every state of a run shows of its past: at most one pre-check and
\* one delegate start; a delegate start only after a resolved module and a
\* passed pre-check; past the start either a module or the not-found exit
\* with no process; and no diagnostic of the launcher without its exit.
OnceEach ==
  /\ Cardinality(Started("precheck")) <= 1
  /\ Cardinality(Started("delegate")) <= 1
  /\ Started("delegate") # {} =>
       /\ module_path.some
       /\ Len(procs) = 2
       /\ procs[1].what = "precheck" /\ procs[1].started
       /\ procs[2].args[1] = module_path.path
  /\ pc # "start" =>
       \/ module_path.some /\ pc # "exited"
       \/ module_path.some /\ pc = "exited" /\ stderr # <<NotFoundMessage>>
       \/ ~module_path.some /\ pc = "exited" /\ stderr = <<NotFoundMessage>> /\ procs = <<>>
  /\ stderr # <<>> => pc = "exited" /\ Len(stderr) = 1

\* What every step of a run does: main never moves back to an earlier stage,
\* the start is left by the step that resolves, the module and what
\* resolution consulted are fixed by that step and never again, a process is
\* started only by a step that leaves its stage, and nothing follows the exit.
Forward ==
  /\ Rank(pc') >= Rank(pc)
  /\ pc # "exited"
  /\ pc = "start" => pc' # "start"
  /\ (module_path' # module_path \/ trace' # trace) => pc = "start"
  /\ procs' # procs => (Len(procs') = Len(procs) + 1 /\ Rank(pc') > Rank(pc))

\* C14: no stage is retried: resolution runs once and selects one module or
\* fails, the pre-check and the delegate start happen at most once each, the
\* delegate is started only after resolution succeeded and the pre-check
\* passed, and after a failure the launcher has exited and takes no further
\* step.
C14_NoRetry == []OnceEach /\ [][Forward]_vars

\* A run that went through every stage: the pre-check and the delegate were
\* started, the delegate ended and the launcher exited.
C14_Witness ==
  /\ pc = "exited"
  /\ Terminated
  /\ Len(procs) = 2
  /\ trace # <<>>

\* The launcher while a delegate exists: it has exited only if the delegate
\* has terminated; while the delegate runs it stands in cmd.status(); and
\* once the delegate has terminated its exit is the step it can take.
TracksDelegate ==
  /\ (pc = "exited" /\ Spawned) => Terminated
  /\ (Spawned /\ ~Terminated) => pc = "waiting"
  /\ (Terminated /\ pc # "exited") => (pc = "waiting" /\ ENABLED ExitWithStatus)

\* The steps while a delegate exists: while it runs, the only step is its
\* termination and the launcher does nothing; once it has terminated, the
\* only step is the launcher's exit with the delegate's status, which starts
\* no process and writes nothing.
OnlyWaitThenExit ==
  Spawned =>
    IF Terminated
    THEN /\ pc' = "exited"
         /\ exit_code' = ExitCodeFor(child.status)
         /\ UNCHANGED <<procs, child, cmd, stdout, stderr, captured>>
    ELSE /\ child'.state = "terminated"
         /\ UNCHANGED <<pc, procs, cmd, stderr, captured, exit_code>>

\* C15: on the delegating path the launcher never exits before the delegate
\* has terminated, and once the delegate has terminated the launcher
\* eventually exits, its exit being its next step, with no stage in between.
C15_LifetimeTracksDelegate ==
  /\ []TracksDelegate
  /\ [][OnlyWaitThenExit]_vars
  /\ Terminated ~> (pc = "exited")

\* The delegate has written to standard output and terminated while the
\* launcher still stands in cmd.status().
C15_Witness ==
  /\ Terminated
  /\ pc = "waiting"
  /\ stdout = <<"delegate">>

\* Whether the root that tier t builds its candidates from makes them
\* absolute: the override tier joins onto RESEARCH_CLI_HOME, so its value
\* must be absolute; the executable-relative tier joins onto the directory of
\* the executable's path; the system tier's paths are written absolute; the
\* user and the platform tier format "<value>/<suffix>", which is absolute
\* for an absolute value and for the empty one.
TierRootAbs(t) ==
  CASE t = 1 -> IsAbs(env["RESEARCH_CLI_HOME"].path)
    [] t = 2 -> IsAbs(exe.path)
    [] t = 3 -> TRUE
    [] t = 4 -> env["HOME"].path = <<>> \/ IsAbs(env["HOME"].path)
    [] OTHER -> env["APPDATA"].path = <<>> \/ IsAbs(env["APPDATA"].path)

\* The path stays what resolution returned: in the built command and in
\* what the delegate is started with, it is the first argument.
PathPassedOn ==
  /\ pc \in {"built", "waiting"} => cmd.args[1] = module_path.path
  /\ \A i \in Started("delegate") : procs[i].args[1] = module_path.path
  /\ Spawned => child.args[1] = module_path.path

InTrace(ev) == \E i \in DOMAIN trace : trace[i] = ev

\* Resolution went on to tier t: it asked for what the tier starts with (the
\* executable's path, the first system path, HOME, APPDATA on Windows).
Reached(t) ==
  CASE t = 2 -> InTrace(CurrentExe)
    [] t = 3 -> InTrace(ProbeOf(system_paths[1]))
    [] t = 4 -> InTrace(ReadVar("HOME"))
    [] OTHER -> windows => InTrace(ReadVar("APPDATA"))

\* Resolution went on from tier t to the next one whenever tier t had no
\* existing candidate, and so on, tier after tier.
RECURSIVE GoesOnFrom(_)
GoesOnFrom(t) ==
  t <= 4 => (ExistingIn(t) = {} => (Reached(t + 1) /\ GoesOnFrom(t + 1)))

\* C17: a tier without a match is passed over, never an error: whenever the
\* tiers up to t have no existing candidate (RESEARCH_CLI_HOME set with none
\* of its suffixes existing, the executable's path unknown, HOME unset, or
\* any other reason) resolution went on to tier t + 1; what it returns is an
\* existing candidate of a tier; and it returns nothing, the launcher ending
\* with the not-found diagnostic, only having probed every candidate of
\* every tier, none of which exists.
C17_NoMatchIsNotAnError ==
  pc # "start" =>
    /\ GoesOnFrom(1)
    /\ module_path.some =>
         /\ module_path.tier \in Tiers
         /\ \E i \in DOMAIN TierCandidates(module_path.tier) :
              TierCandidates(module_path.tier)[i] = module_path.path
         /\ Exists(fs, cwd, module_path.path)
    /\ ~module_path.some =>
         /\ pc = "exited"
         /\ stderr = <<NotFoundMessage>>
         /\ ProbedPaths = SearchOrder
         /\ NoCandidateExists

\* RESEARCH_CLI_HOME is set and readable but nothing exists under it, the
\* executable's path is unknown and HOME is unset, and resolution returned a
\* path of the platform tier.
C17_Witness ==
  /\ pc = "resolved"
  /\ EnvVar(env, "RESEARCH_CLI_HOME").some
  /\ ~exe.some
  /\ ~env["HOME"].some
  /\ module_path.tier = 5

\* Inference set RESEARCH_CLI_HOME for the delegate.
InferenceSet == pc = "built" /\ cmd.env_home.some

\* What the override tier returns when RESEARCH_CLI_HOME is root, on the
\* launcher's filesystem.
OverrideSelects(root) == Probe(fs, cwd, JoinAll(root, paths_to_try))

\* The inferred root is a path above the module, as Path::parent yields it.
IsAbove(root) == \E k \in WalkedLengths : root = WalkedPrefix(k)

\* C18 (as stated): whenever inference sets RESEARCH_CLI_HOME to R, R is
\* above the resolved module and the override tier applied to R selects the
\* resolved module.
C18_RoundTrip ==
  InferenceSet =>
    /\ IsAbove(cmd.env_home.path)
    /\ OverrideSelects(cmd.env_home.path) = Some(module_path.path)

\* C18 (amended): whenever inference sets RESEARCH_CLI_HOME to R, R is above
\* the resolved module and has a marker; and the override tier applied to R
\* selects the resolved module exactly when the module is R joined with one
\* of the four suffixes and no suffix listed before that one exists under R.
C18_RoundTripWhenUnderSuffix ==
  InferenceSet =>
    LET R == cmd.env_home.path
    IN /\ IsAbove(R)
       /\ HasMarker(R)
       /\ (OverrideSelects(R) = Some(module_path.path)) <=>
            \E i \in DOMAIN paths_to_try :
              /\ Join(R, paths_to_try[i]) = module_path.path
              /\ \A j \in 1..(i - 1) : ~Exists(fs, cwd, Join(R, paths_to_try[j]))

\* Inference set the module's own directory, which holds a package.json, and
\* the override tier applied to it selects the module by its last suffix.
C18_Witness ==
  /\ InferenceSet
  /\ Join(cmd.env_home.path, paths_to_try[4]) = module_path.path
  /\ OverrideSelects(cmd.env_home.path) = Some(module_path.path)

====
